---------------------------- MODULE Spec2Model ----------------------------
(***************************************************************************)
(* MongoConnectionManager (src/src/MongoConnectionManager.ts) and the      *)
(* retry executor it uses (src/unnamed/part_000, lines 30-55).             *)
(*                                                                         *)
(* Granularity: one action is one task of the Node event loop (an API      *)
(* call, the completion of the driver's connect, a backoff timer, a driver *)
(* event) together with the promise reactions it triggers, which run to    *)
(* completion before the next timer or I/O event is dispatched.            *)
(***************************************************************************)
EXTENDS Integers, Sequences, FiniteSets, TLC

(* ------------------------------ bounds -------------------------------- *)
MaxAttemptsOpt == 2     \* largest retryAttempts option value explored
MaxListeners   == 2     \* listeners registered through onConnectionChanged
MaxCalls       == 3     \* getClient calls
MaxDisconnects == 2     \* driver events (serverClosed / error / close)
RandomSteps    == 2     \* Math.random() is one of 0/RandomSteps .. (RandomSteps-1)/RandomSteps
MaxRetries     == 3     \* largest retries argument of a direct retry() call
MaxConnectCalls == 7    \* MongoClient.connect invocations explored in one run
MaxReads == 1           \* isConnnected() calls explored in one run

(* ------------------------- program constants -------------------------- *)
DefaultRetryAttempts == 5       \* options?.retryAttempts || 5
DefaultRetryInterval == 1000    \* options?.retryInterval || 1000
DefaultRetries       == 5       \* retry(callback, retries = 5, ...)
DefaultDelay         == 500     \* retry(callback, retries, delay = 500, ...)
SmallInterval        == 8       \* an explicit retryInterval / delay argument

VARIABLES
    logger,            \* this.logger: TRUE if a logger was handed to the constructor
    optAttempts,       \* the retryAttempts option handed to the constructor
    optInterval,       \* the retryInterval option handed to the constructor
    retryAttempts,     \* this.retryAttempts
    retryInterval,     \* this.retryInterval
    client,            \* this.client
    connected,         \* this.connected
    callbacks,         \* this.onConnectionChangedCallbacks
    connectionPromise, \* this.connectionPromise: 0 is null, else an index of promises
    promises,          \* every promise createConnectionPromise has returned
    subscribed,        \* the events the stored client has handlers for
    rpc,               \* retry: "idle" | "calling" | "waiting" | "resolved" | "rejected" | "stuck"
    retries,           \* retry: the retries parameter of the running invocation
    delay,             \* retry: the delay parameter of the running invocation
    timer,             \* retry: the timeout handed to setTimeout (nextDelay)
    rinit,             \* retry: the retries argument of the outermost call
    rcalls,            \* retry: callback invocations made by the outermost call
    rvalue,            \* retry: the settled value of the outermost promise
    dinit,             \* retry: the delay argument of the outermost call
    rlogger,           \* retry: the logger argument
    rlog,              \* retry: calls made to the logger's warn / info / error
    inFlight,          \* callback invocations started and not yet settled
    timersPending,     \* setTimeout timers armed and not yet fired
    connectCalls,      \* invocations of MongoClient.connect
    seqStarted,        \* invocations of createConnectionPromise
    callers,           \* one record per getClient call
    passes,            \* the notification passes run so far
    lastAttempt,       \* outcome of the last completed driver connect
    discSince,         \* a driver event was handled since that connect
    nDisc,             \* driver events handled
    finalFailure,      \* how the MongoClient.connect that exhausted retry failed, and with what
    registrations,     \* the argument of every onConnectionChanged call, in call order
    reads              \* isConnnected() calls made

mgrVars   == <<logger, optAttempts, optInterval, retryAttempts, retryInterval, client,
               connected, callbacks, connectionPromise, promises, subscribed>>
retryVars == <<rpc, retries, delay, timer, rinit, rcalls, rvalue, dinit, rlogger, rlog,
               inFlight, timersPending>>
obsVars   == <<connectCalls, seqStarted, callers, passes, lastAttempt, discSince, nDisc,
               finalFailure>>
callVars  == <<registrations, reads>>
vars      == <<mgrVars, retryVars, obsVars, callVars>>

(* ------------------------------- values ------------------------------- *)
Null    == [type |-> "null"]
NoValue == [type |-> "undefined"]
Client(n) == [type |-> "MongoClient", id |-> n]
\* the Error the driver's connect rejects with on its n-th invocation
ConnectError(n) == [type |-> "Error", message |-> "connect", n |-> n]

\* What a failing MongoClient.connect does on its n-th invocation: its promise
\* rejects, or the call throws: an Error from the ConnectionString constructor,
\* another Error, or a value that is no Error.
NoFailure == [how |-> "none", value |-> NoValue]
ParseError(n) == [type |-> "Error", message |-> "parse", n |-> n,
                  stack |-> "at new ConnectionString"]
ThrownError(n) == [type |-> "Error", message |-> "thrown", n |-> n, stack |-> "at connect"]
ThrownValue(n) == [type |-> "string", n |-> n]
DriverFailures(n) ==
    {[how |-> "rejects", value |-> ConnectError(n)],
     [how |-> "throws", value |-> ParseError(n)],
     [how |-> "throws", value |-> ThrownError(n)],
     [how |-> "throws", value |-> ThrownValue(n)]}
InvalidConnectionString == [type |-> "Error", message |-> "Invalid connection string"]
UnexpectedError == [type |-> "Error", message |-> "Unexpected error"]
AggregateMessage == "Errors occurred in onConnectionChanged callbacks"

\* class AggregateError extends Error
AggregateError(errors, message) ==
    [type |-> "AggregateError", message |-> message, errors |-> errors]

IsError(v) == v.type \in {"Error", "AggregateError"}     \* err instanceof Error

\* The callbacks a caller may register.  "quiet" returns; "registers" calls
\* onConnectionChanged(Late) and returns; the others throw.
ListenerPool == {"quiet", "registers", "throwsErrorA", "throwsErrorB", "throwsString"}
Throws(cb) == cb \in {"throwsErrorA", "throwsErrorB", "throwsString"}
Registers(cb) == cb = "registers"
Late == "quiet"    \* the callback a "registers" listener hands to onConnectionChanged
Thrown(cb) == IF cb = "throwsString" THEN [type |-> "string", by |-> cb]
                                     ELSE [type |-> "Error", by |-> cb]

DriverEvents == {"serverClosed", "error", "close"}

\* An optional numeric option: absent, or a number.
Absent     == [given |-> FALSE, value |-> 0]
Given(v)   == [given |-> TRUE, value |-> v]
\* JavaScript's  opt || d  for an optional number: undefined and 0 are falsy.
OrDefault(opt, d) == IF (~opt.given) \/ opt.value = 0 THEN d ELSE opt.value
\* A default parameter value applies to undefined only.
ParamDefault(arg, d) == IF arg.given THEN arg.value ELSE d

AttemptOptions  == {Absent} \cup {Given(v) : v \in (-1)..MaxAttemptsOpt}
IntervalOptions == {Absent, Given(SmallInterval)}

(* -------------------------- retry (part_000) --------------------------- *)
\* let jitter = delay * 0.5 * Math.random(), with Math.random() = r / RandomSteps
Jitter(d, r) == (d * r) \div (2 * RandomSteps)
NextDelay(d, r) == d + Jitter(d, r)

\* The logger argument: null, an ILogger whose methods return, or one whose
\* methods throw.
Loggers == {"none", "returns", "throws"}
NoLog == [warn |-> 0, info |-> 0, error |-> 0]
\* logger?.warn(...) / logger?.info(...) / logger?.error(...): the calls made
Log(l, level) == IF rlogger = "none" THEN l ELSE [l EXCEPT ![level] = @ + 1]

\* retry(callback, n, d): no logger argument; the executor calls callback() at once.
RetryStart(n, d) ==
    /\ rpc' = "calling"
    /\ retries' = n
    /\ delay' = d
    /\ timer' = 0
    /\ rinit' = n
    /\ dinit' = d
    /\ rcalls' = 1
    /\ rvalue' = NoValue
    /\ rlogger' = "none"
    /\ rlog' = NoLog
    /\ inFlight' = inFlight + 1
    /\ timersPending' = timersPending

\* callback().then(resolve)
RetryOnResolve(v) ==
    /\ rpc' = "resolved"
    /\ rvalue' = v
    /\ inFlight' = inFlight - 1
    /\ UNCHANGED <<retries, delay, timer, rinit, dinit, rcalls, rlogger, rlog, timersPending>>

ExhaustedOffByOne(n) == n <= 1

\* the test of line 38
Exhausted(n) == n = 0

\* the catch-handler rejecting with a new Error that wraps the callback's
RetryOnRejectWrapping(err, r) ==
    /\ inFlight' = inFlight - 1
    /\ IF rlogger = "throws"
       THEN /\ rpc' = "stuck"
            /\ rlog' = Log(rlog, "warn")
            /\ UNCHANGED <<retries, delay, timer, rinit, dinit, rcalls, rvalue, rlogger,
                           timersPending>>
       ELSE IF retries = 0
       THEN /\ rpc' = "rejected"
            /\ rvalue' = [type |-> "Error", message |-> "retries exhausted", cause |-> err]
            /\ rlog' = Log(Log(rlog, "warn"), "error")
            /\ UNCHANGED <<retries, delay, timer, rinit, dinit, rcalls, rlogger,
                           timersPending>>
       ELSE /\ rpc' = "waiting"
            /\ timer' = NextDelay(delay, r)
            /\ rlog' = Log(Log(rlog, "warn"), "info")
            /\ timersPending' = timersPending + 1
            /\ UNCHANGED <<retries, delay, rinit, dinit, rcalls, rvalue, rlogger>>

\* the catch-handler with the warning issued only when a retry follows
RetryOnRejectWarningOnRetryOnly(err, r) ==
    /\ inFlight' = inFlight - 1
    /\ IF retries = 0
       THEN /\ IF rlogger = "throws"
               THEN rpc' = "stuck" /\ rvalue' = rvalue
               ELSE rpc' = "rejected" /\ rvalue' = err
            /\ rlog' = Log(rlog, "error")
            /\ UNCHANGED <<retries, delay, timer, rinit, dinit, rcalls, rlogger,
                           timersPending>>
       ELSE IF rlogger = "throws"
       THEN /\ rpc' = "stuck"
            /\ rlog' = Log(rlog, "warn")
            /\ UNCHANGED <<retries, delay, timer, rinit, dinit, rcalls, rvalue, rlogger,
                           timersPending>>
       ELSE /\ rpc' = "waiting"
            /\ timer' = NextDelay(delay, r)
            /\ rlog' = Log(Log(rlog, "warn"), "info")
            /\ timersPending' = timersPending + 1
            /\ UNCHANGED <<retries, delay, rinit, dinit, rcalls, rvalue, rlogger>>

\* callback().catch(err => ...): warn; then reject when exhausted, else arm the
\* timer.  A logger method that throws ends the handler there: neither resolve
\* nor reject is ever called and no timer is armed.
RetryOnReject(err, r) ==
    /\ inFlight' = inFlight - 1
    /\ IF rlogger = "throws"
       THEN /\ rpc' = "stuck"
            /\ rlog' = Log(rlog, "warn")
            /\ UNCHANGED <<retries, delay, timer, rinit, dinit, rcalls, rvalue, rlogger,
                           timersPending>>
       ELSE IF Exhausted(retries)
       THEN /\ rpc' = "rejected"
            /\ rvalue' = err
            /\ rlog' = Log(Log(rlog, "warn"), "error")
            /\ UNCHANGED <<retries, delay, timer, rinit, dinit, rcalls, rlogger,
                           timersPending>>
       ELSE /\ rpc' = "waiting"
            /\ timer' = NextDelay(delay, r)
            /\ rlog' = Log(Log(rlog, "warn"), "info")
            /\ timersPending' = timersPending + 1
            /\ UNCHANGED <<retries, delay, rinit, dinit, rcalls, rvalue, rlogger>>

\* the recursive call made with the jittered delay doubled
RetryOnTimerCarryingJitter ==
    /\ rpc' = "calling"
    /\ retries' = retries - 1
    /\ delay' = timer * 2
    /\ rcalls' = rcalls + 1
    /\ inFlight' = inFlight + 1
    /\ timersPending' = timersPending - 1
    /\ UNCHANGED <<timer, rinit, dinit, rvalue, rlogger, rlog>>

\* the recursive call made with retries instead of retries - 1
RetryOnTimerKeepingRetries ==
    /\ rpc' = "calling"
    /\ retries' = retries
    /\ delay' = delay * 2
    /\ rcalls' = rcalls + 1
    /\ inFlight' = inFlight + 1
    /\ timersPending' = timersPending - 1
    /\ UNCHANGED <<timer, rinit, dinit, rvalue, rlogger, rlog>>

\* the setTimeout callback: retry(callback, retries - 1, delay * 2, logger)
RetryOnTimer ==
    /\ rpc' = "calling"
    /\ retries' = retries - 1
    /\ delay' = delay * 2
    /\ rcalls' = rcalls + 1
    /\ inFlight' = inFlight + 1
    /\ timersPending' = timersPending - 1
    /\ UNCHANGED <<timer, rinit, dinit, rvalue, rlogger, rlog>>

(* ------------------------ listener notification ------------------------ *)
\* The state of a pass before its first iteration.  array is
\* this.onConnectionChangedCallbacks, which a listener may replace while the
\* forEach runs over the array it was called on.
BeginPass(cbs) ==
    [invoked |-> <<>>, seen |-> <<>>, errors |-> <<>>, unknown |-> 0, logged |-> 0,
     array |-> cbs]

\* line 42, called from inside a listener
RegisterFromListener(cb, array) ==
    IF Registers(cb) /\ Len(array) < MaxListeners THEN Append(array, Late) ELSE array

\* One iteration of the forEach body: try { callback() } catch (err) { ... }.
\* flag is what isConnnected() returns while the callback runs.  A caught Error
\* is pushed to errors; any other caught value (counted in unknown) is handed
\* to this.logger?.error only (counted in logged when there is a logger).
InvokeListener(cb, flag, acc) ==
    [invoked |-> Append(acc.invoked, cb),
     seen    |-> Append(acc.seen, flag),
     errors  |-> IF Throws(cb) /\ IsError(Thrown(cb))
                 THEN Append(acc.errors, Thrown(cb)) ELSE acc.errors,
     unknown |-> IF Throws(cb) /\ ~IsError(Thrown(cb))
                 THEN acc.unknown + 1 ELSE acc.unknown,
     logged  |-> IF Throws(cb) /\ ~IsError(Thrown(cb)) /\ logger
                 THEN acc.logged + 1 ELSE acc.logged,
     array   |-> RegisterFromListener(cb, acc.array)]

\* a pass that walks the array the manager holds at each step, not the one
\* forEach was called on
RECURSIVE NotifyFromLive(_, _, _, _)
NotifyFromLive(cbs, i, flag, acc) ==
    IF i > Len(acc.array) THEN acc
    ELSE NotifyFromLive(cbs, i + 1, flag, InvokeListener(acc.array[i], flag, acc))

RECURSIVE NotifyFrom(_, _, _, _)
NotifyFrom(cbs, i, flag, acc) ==
    IF i > Len(cbs) THEN acc
    ELSE NotifyFrom(cbs, i + 1, flag, InvokeListener(cbs[i], flag, acc))

\* a pass without the try/catch: the first throwing listener ends it
RECURSIVE NotifyUntilThrow(_, _, _, _)
NotifyUntilThrow(cbs, i, flag, acc) ==
    IF i > Len(cbs) THEN acc
    ELSE IF Throws(cbs[i]) THEN InvokeListener(cbs[i], flag, acc)
    ELSE NotifyUntilThrow(cbs, i + 1, flag, InvokeListener(cbs[i], flag, acc))

NotifyAllAborting(cbs, flag) == NotifyUntilThrow(cbs, 1, flag, BeginPass(cbs))

\* this.onConnectionChangedCallbacks.forEach(...)
NotifyAll(cbs, flag) == NotifyFrom(cbs, 1, flag, BeginPass(cbs))

\* the onConnectionChanged calls the listeners of a pass made, in call order
RegisteredIn(pass) == SubSeq(pass.array, Len(pass.registered) + 1, Len(pass.array))

\* if (errors.length > 0) throw new AggregateError(errors, "...")
Raised(errors) ==
    IF Len(errors) > 0 THEN AggregateError(errors, AggregateMessage) ELSE NoValue

\* onConnect() undoing the flag when a listener failed
onConnectRollingBack(cbs) ==
    LET pass == NotifyAll(cbs, TRUE)
    IN  [connected |-> Len(pass.errors) = 0,
         pass      |-> [transition |-> "connect", registered |-> cbs,
                        invoked |-> pass.invoked, seen |-> pass.seen,
                        errors |-> pass.errors, unknown |-> pass.unknown,
                        logged |-> pass.logged, array |-> pass.array,
                        raised |-> Raised(pass.errors)]]

\* onConnect(): the flag it leaves, the pass it ran, what it threw
onConnect(cbs) ==
    LET flag == TRUE
        pass == NotifyAll(cbs, flag)
    IN  [connected |-> flag,
         pass      |-> [transition |-> "connect", registered |-> cbs,
                        invoked |-> pass.invoked, seen |-> pass.seen,
                        errors |-> pass.errors, unknown |-> pass.unknown,
                        logged |-> pass.logged, array |-> pass.array,
                        raised |-> Raised(pass.errors)]]

\* onDisconnect() as the earlier variant of the manager has it (this.connected = true)
onDisconnectStaysConnected(cbs) ==
    LET flag == TRUE
        pass == NotifyAll(cbs, flag)
    IN  [connected |-> flag,
         pass      |-> [transition |-> "disconnect", registered |-> cbs,
                        invoked |-> pass.invoked, seen |-> pass.seen,
                        errors |-> pass.errors, unknown |-> pass.unknown,
                        logged |-> pass.logged, array |-> pass.array,
                        raised |-> Raised(pass.errors)]]

\* onDisconnect()
onDisconnect(cbs) ==
    LET flag == FALSE
        pass == NotifyAll(cbs, flag)
    IN  [connected |-> flag,
         pass      |-> [transition |-> "disconnect", registered |-> cbs,
                        invoked |-> pass.invoked, seen |-> pass.seen,
                        errors |-> pass.errors, unknown |-> pass.unknown,
                        logged |-> pass.logged, array |-> pass.array,
                        raised |-> Raised(pass.errors)]]

(* ------------------------------ manager -------------------------------- *)
isConnnected == connected

Pending == [state |-> "pending", value |-> NoValue]
Settle(ps, p, st, v) == [ps EXCEPT ![p] = [state |-> st, value |-> v]]

\* where the manager is when getClient is called
Phase ==
    IF connectionPromise = 0 THEN "none"
    ELSE IF promises[connectionPromise].state = "pending" THEN "inflight"
    ELSE IF promises[connectionPromise].state = "fulfilled" /\ ~discSince THEN "succeeded"
    ELSE IF promises[connectionPromise].state = "fulfilled" THEN "disconnected"
    ELSE IF lastAttempt = "fail" THEN "exhausted"
    ELSE "rejected"

\* a constructor that calls getClient() itself
InitEager ==
    /\ logger \in BOOLEAN
    /\ optAttempts \in AttemptOptions
    /\ optInterval \in IntervalOptions
    /\ retryAttempts = OrDefault(optAttempts, DefaultRetryAttempts)
    /\ retryInterval = OrDefault(optInterval, DefaultRetryInterval)
    /\ client = Null
    /\ connected = FALSE
    /\ callbacks = <<>>
    /\ connectionPromise = 1
    /\ promises = <<Pending>>
    /\ subscribed = {}
    /\ rpc = "calling"
    /\ retries = retryAttempts
    /\ delay = retryInterval
    /\ timer = 0
    /\ rinit = retryAttempts
    /\ dinit = retryInterval
    /\ rcalls = 1
    /\ rvalue = NoValue
    /\ rlogger = "none"
    /\ rlog = NoLog
    /\ inFlight = 1
    /\ timersPending = 0
    /\ connectCalls = 1
    /\ seqStarted = 1
    /\ callers = <<>>
    /\ passes = <<>>
    /\ lastAttempt = "none"
    /\ discSince = FALSE
    /\ nDisc = 0
    /\ finalFailure = NoFailure
    /\ registrations = <<>>
    /\ reads = 0

Init ==
    /\ logger \in BOOLEAN
    /\ optAttempts \in AttemptOptions
    /\ optInterval \in IntervalOptions
    /\ retryAttempts = OrDefault(optAttempts, DefaultRetryAttempts)
    /\ retryInterval = OrDefault(optInterval, DefaultRetryInterval)
    /\ client = Null
    /\ connected = FALSE
    /\ callbacks = <<>>
    /\ connectionPromise = 0
    /\ promises = <<>>
    /\ subscribed = {}
    /\ rpc = "idle"
    /\ retries = 0
    /\ delay = 0
    /\ timer = 0
    /\ rinit = 0
    /\ dinit = 0
    /\ rcalls = 0
    /\ rvalue = NoValue
    /\ rlogger = "none"
    /\ rlog = NoLog
    /\ inFlight = 0
    /\ timersPending = 0
    /\ connectCalls = 0
    /\ seqStarted = 0
    /\ callers = <<>>
    /\ passes = <<>>
    /\ lastAttempt = "none"
    /\ discSince = FALSE
    /\ nDisc = 0
    /\ finalFailure = NoFailure
    /\ registrations = <<>>
    /\ reads = 0

\* onConnectionChanged(callback) skipping a callback it already holds
OnConnectionChangedOnce(cb) ==
    /\ Len(callbacks) < MaxListeners
    /\ callbacks' = IF \E i \in 1..Len(callbacks) : callbacks[i] = cb
                    THEN callbacks ELSE Append(callbacks, cb)
    /\ registrations' = Append(registrations, cb)
    /\ UNCHANGED <<logger, optAttempts, optInterval, retryAttempts, retryInterval, client,
                   connected, connectionPromise, promises, subscribed>>
    /\ UNCHANGED <<retryVars, obsVars, reads>>

\* onConnectionChanged(callback)
OnConnectionChanged(cb) ==
    /\ Len(callbacks) < MaxListeners
    /\ callbacks' = Append(callbacks, cb)
    /\ UNCHANGED <<logger, optAttempts, optInterval, retryAttempts, retryInterval, client,
                   connected, connectionPromise, promises, subscribed>>
    /\ registrations' = Append(registrations, cb)
    /\ UNCHANGED <<retryVars, obsVars, reads>>

NeverCached(p) == TRUE

\* the test of line 46
NoPromiseCached(p) == p = 0

\* getClient(), with createConnectionPromise() up to the driver's connect call
GetClient ==
    /\ Len(callers) < MaxCalls
    /\ IF NoPromiseCached(connectionPromise)
       THEN /\ promises' = Append(promises, Pending)
            /\ connectionPromise' = Len(promises) + 1
            /\ connected' = FALSE
            /\ RetryStart(retryAttempts, retryInterval)
            /\ connectCalls' = connectCalls + 1
            /\ seqStarted' = seqStarted + 1
       ELSE /\ UNCHANGED <<promises, connectionPromise, connected>>
            /\ UNCHANGED <<retryVars, connectCalls, seqStarted>>
    /\ callers' = Append(callers, [promise |-> connectionPromise', phase |-> Phase,
                                   created |-> NoPromiseCached(connectionPromise),
                                   afterDisconnect |-> (lastAttempt = "ok" /\ discSince),
                                   seq |-> seqStarted'])
    /\ UNCHANGED <<logger, optAttempts, optInterval, retryAttempts, retryInterval, client,
                   callbacks, subscribed>>
    /\ UNCHANGED <<passes, lastAttempt, discSince, nDisc, finalFailure, callVars>>

\* resolve(this.client) whatever onConnect() did
SettleAlwaysFulfilled(ps, p, raised, c) == Settle(ps, p, "fulfilled", c)

\* lines 149-157: onConnect() threw, so the catch-handler rejects with what it
\* threw; otherwise resolve(this.client)
SettleConnected(ps, p, raised, c) ==
    IF raised # NoValue THEN Settle(ps, p, "rejected", raised)
                        ELSE Settle(ps, p, "fulfilled", c)

\* The driver's connect resolves: tryConnect's then-handler stores the client and
\* subscribes the three handlers, retry resolves, and the then-handler of
\* createConnectionPromise runs onConnect() and settles the promise.
ConnectResolves ==
    /\ rpc = "calling"
    /\ LET c  == Client(connectCalls)
           oc == onConnect(callbacks)
       IN  /\ client' = c
           /\ subscribed' = DriverEvents
           /\ RetryOnResolve(NoValue)
           /\ connected' = oc.connected
           /\ passes' = Append(passes, oc.pass)
           /\ callbacks' = oc.pass.array
           /\ registrations' = registrations \o RegisteredIn(oc.pass)
           /\ promises' = SettleConnected(promises, connectionPromise, oc.pass.raised, c)
    /\ lastAttempt' = "ok"
    /\ discSince' = FALSE
    /\ UNCHANGED <<logger, optAttempts, optInterval, retryAttempts, retryInterval,
                   connectionPromise>>
    /\ UNCHANGED <<connectCalls, seqStarted, callers, nDisc, finalFailure, reads>>

\* err.stack.includes("at new ConnectionString")
AtConnectionString(v) == "stack" \in DOMAIN v /\ v.stack = "at new ConnectionString"

\* tryConnect with a failing driver: the catch-handler of lines 115-122 rejects
\* with the driver's error; the catch block of lines 124-137 rejects with a
\* thrown Error, replaced if it comes from the ConnectionString constructor, and
\* with a new Error for any other thrown value.
TryConnectRejection(f) ==
    IF f.how = "rejects" THEN f.value
    ELSE IF IsError(f.value)
         THEN IF AtConnectionString(f.value) THEN InvalidConnectionString ELSE f.value
         ELSE UnexpectedError

\* The driver's connect fails: tryConnect rejects, retry either arms its timer or
\* rejects, and then createConnectionPromise's catch-handler rejects the promise
\* with the error retry rejected with.
ConnectRejects ==
    /\ rpc = "calling"
    /\ \E f \in DriverFailures(connectCalls), r \in 0..(RandomSteps - 1) :
          /\ RetryOnReject(TryConnectRejection(f), r)
          /\ finalFailure' = IF rpc' = "rejected" THEN f ELSE finalFailure
    /\ promises' = IF rpc' = "rejected"
                   THEN Settle(promises, connectionPromise, "rejected", rvalue')
                   ELSE promises
    /\ lastAttempt' = "fail"
    /\ discSince' = FALSE
    /\ UNCHANGED <<logger, optAttempts, optInterval, retryAttempts, retryInterval, client,
                   connected, callbacks, connectionPromise, subscribed>>
    /\ UNCHANGED <<connectCalls, seqStarted, callers, passes, nDisc, callVars>>

\* The backoff timer fires: retry calls tryConnect again.
RetryTimerFires ==
    /\ rpc = "waiting"
    /\ connectCalls < MaxConnectCalls
    /\ RetryOnTimer
    /\ connectCalls' = connectCalls + 1
    /\ UNCHANGED mgrVars
    /\ UNCHANGED <<seqStarted, callers, passes, lastAttempt, discSince, nDisc, finalFailure,
                   callVars>>

\* The stored client emits serverClosed, error or close: the handler runs onDisconnect().
Disconnect(ev) ==
    /\ ev \in subscribed
    /\ nDisc < MaxDisconnects
    /\ LET od == onDisconnect(callbacks)
       IN  /\ connected' = od.connected
           /\ passes' = Append(passes, od.pass)
           /\ callbacks' = od.pass.array
           /\ registrations' = registrations \o RegisteredIn(od.pass)
    /\ discSince' = TRUE
    /\ nDisc' = nDisc + 1
    /\ UNCHANGED <<logger, optAttempts, optInterval, retryAttempts, retryInterval, client,
                   connectionPromise, promises, subscribed>>
    /\ UNCHANGED <<retryVars, connectCalls, seqStarted, callers, lastAttempt, finalFailure,
                   reads>>

Next ==
    \/ \E cb \in ListenerPool : OnConnectionChanged(cb)
    \/ GetClient
    \/ ConnectResolves
    \/ ConnectRejects
    \/ RetryTimerFires
    \/ \E ev \in DriverEvents : Disconnect(ev)

Spec == Init /\ [][Next]_vars

(* ----------------------- retry() called directly ----------------------- *)
\* what the callback of a direct retry() call settles with on its n-th invocation
Result(n) == [type |-> "result", n |-> n]
CallbackError(n) == [type |-> "Error", message |-> "rejected", n |-> n]

RetriesArgs == {Absent} \cup {Given(n) : n \in 0..MaxRetries}
DelayArgs   == {Absent, Given(0), Given(SmallInterval)}

\* the state right after  retry(callback, retriesArg, delayArg)  has returned
InitRetry ==
    /\ logger = FALSE
    /\ optAttempts = Absent
    /\ optInterval = Absent
    /\ retryAttempts = OrDefault(optAttempts, DefaultRetryAttempts)
    /\ retryInterval = OrDefault(optInterval, DefaultRetryInterval)
    /\ client = Null
    /\ connected = FALSE
    /\ callbacks = <<>>
    /\ connectionPromise = 0
    /\ promises = <<>>
    /\ subscribed = {}
    /\ \E n \in RetriesArgs, d \in DelayArgs :
          /\ retries = ParamDefault(n, DefaultRetries)
          /\ delay = ParamDefault(d, DefaultDelay)
          /\ rinit = ParamDefault(n, DefaultRetries)
          /\ dinit = ParamDefault(d, DefaultDelay)
    /\ rlogger \in Loggers
    /\ rlog = NoLog
    /\ inFlight = 1
    /\ timersPending = 0
    /\ rpc = "calling"
    /\ timer = 0
    /\ rcalls = 1
    /\ rvalue = NoValue
    /\ connectCalls = 0
    /\ seqStarted = 0
    /\ callers = <<>>
    /\ passes = <<>>
    /\ lastAttempt = "none"
    /\ discSince = FALSE
    /\ nDisc = 0
    /\ finalFailure = NoFailure
    /\ registrations = <<>>
    /\ reads = 0

CallbackResolves ==
    /\ rpc = "calling"
    /\ RetryOnResolve(Result(rcalls))
    /\ UNCHANGED <<mgrVars, obsVars, callVars>>

CallbackRejects ==
    /\ rpc = "calling"
    /\ \E r \in 0..(RandomSteps - 1) : RetryOnReject(CallbackError(rcalls), r)
    /\ UNCHANGED <<mgrVars, obsVars, callVars>>

TimerFires ==
    /\ rpc = "waiting"
    /\ RetryOnTimer
    /\ UNCHANGED <<mgrVars, obsVars, callVars>>

NextRetry == CallbackResolves \/ CallbackRejects \/ TimerFires

SpecRetry == InitRetry /\ [][NextRetry]_vars

\* isConnnected() is called: return this.connected
IsConnnected ==
    /\ reads < MaxReads
    /\ reads' = reads + 1
    /\ UNCHANGED <<mgrVars, retryVars, obsVars, registrations>>

\* the manager with its three public methods
NextCalls == Next \/ IsConnnected

SpecCalls == Init /\ [][NextCalls]_vars

(* ------------- the earlier variant of the manager (part_001) ----------- *)
\* The forEach body of the earlier variant: errors = [...errors, err] for
\* whatever was thrown.
InvokeListenerEarlier(cb, flag, acc) ==
    [invoked |-> Append(acc.invoked, cb),
     seen    |-> Append(acc.seen, flag),
     errors  |-> IF Throws(cb) THEN Append(acc.errors, Thrown(cb)) ELSE acc.errors,
     unknown |-> acc.unknown,
     logged  |-> acc.logged,
     array   |-> RegisterFromListener(cb, acc.array)]

RECURSIVE NotifyFromEarlier(_, _, _, _)
NotifyFromEarlier(cbs, i, flag, acc) ==
    IF i > Len(cbs) THEN acc
    ELSE NotifyFromEarlier(cbs, i + 1, flag, InvokeListenerEarlier(cbs[i], flag, acc))

NotifyAllEarlier(cbs, flag) == NotifyFromEarlier(cbs, 1, flag, BeginPass(cbs))

\* onConnect() of the earlier variant
onConnectEarlier(cbs) ==
    LET flag == TRUE
        pass == NotifyAllEarlier(cbs, flag)
    IN  [connected |-> flag,
         pass      |-> [transition |-> "connect", registered |-> cbs,
                        invoked |-> pass.invoked, seen |-> pass.seen,
                        errors |-> pass.errors, unknown |-> pass.unknown,
                        logged |-> pass.logged, array |-> pass.array,
                        raised |-> Raised(pass.errors)]]

\* onDisconnect() of the earlier variant: this.connected = true
onDisconnectEarlier(cbs) ==
    LET flag == TRUE
        pass == NotifyAllEarlier(cbs, flag)
    IN  [connected |-> flag,
         pass      |-> [transition |-> "disconnect", registered |-> cbs,
                        invoked |-> pass.invoked, seen |-> pass.seen,
                        errors |-> pass.errors, unknown |-> pass.unknown,
                        logged |-> pass.logged, array |-> pass.array,
                        raised |-> Raised(pass.errors)]]

\* The earlier constructor takes no logger.
InitEarlier == Init /\ logger = FALSE

\* The driver's connect resolves (earlier variant).
ConnectResolvesEarlier ==
    /\ rpc = "calling"
    /\ LET c  == Client(connectCalls)
           oc == onConnectEarlier(callbacks)
       IN  /\ client' = c
           /\ subscribed' = DriverEvents
           /\ RetryOnResolve(NoValue)
           /\ connected' = oc.connected
           /\ passes' = Append(passes, oc.pass)
           /\ callbacks' = oc.pass.array
           /\ registrations' = registrations \o RegisteredIn(oc.pass)
           /\ promises' = SettleConnected(promises, connectionPromise, oc.pass.raised, c)
    /\ lastAttempt' = "ok"
    /\ discSince' = FALSE
    /\ UNCHANGED <<logger, optAttempts, optInterval, retryAttempts, retryInterval,
                   connectionPromise>>
    /\ UNCHANGED <<connectCalls, seqStarted, callers, nDisc, finalFailure, reads>>

\* The driver's connect fails (earlier variant): tryConnect rejects with what
\* the driver rejected with or threw, unchanged.
ConnectRejectsEarlier ==
    /\ rpc = "calling"
    /\ \E f \in DriverFailures(connectCalls), r \in 0..(RandomSteps - 1) :
          /\ RetryOnReject(f.value, r)
          /\ finalFailure' = IF rpc' = "rejected" THEN f ELSE finalFailure
    /\ promises' = IF rpc' = "rejected"
                   THEN Settle(promises, connectionPromise, "rejected", rvalue')
                   ELSE promises
    /\ lastAttempt' = "fail"
    /\ discSince' = FALSE
    /\ UNCHANGED <<logger, optAttempts, optInterval, retryAttempts, retryInterval, client,
                   connected, callbacks, connectionPromise, subscribed>>
    /\ UNCHANGED <<connectCalls, seqStarted, callers, passes, nDisc, callVars>>

\* The stored client emits serverClosed, error or close (earlier variant).
DisconnectEarlier(ev) ==
    /\ ev \in subscribed
    /\ nDisc < MaxDisconnects
    /\ LET od == onDisconnectEarlier(callbacks)
       IN  /\ connected' = od.connected
           /\ passes' = Append(passes, od.pass)
           /\ callbacks' = od.pass.array
           /\ registrations' = registrations \o RegisteredIn(od.pass)
    /\ discSince' = TRUE
    /\ nDisc' = nDisc + 1
    /\ UNCHANGED <<logger, optAttempts, optInterval, retryAttempts, retryInterval, client,
                   connectionPromise, promises, subscribed>>
    /\ UNCHANGED <<retryVars, connectCalls, seqStarted, callers, lastAttempt, finalFailure,
                   reads>>

\* getConnection, onConnectionChanged and the use of retry are those of the
\* current variant.
NextEarlier ==
    \/ \E cb \in ListenerPool : OnConnectionChanged(cb)
    \/ GetClient
    \/ ConnectResolvesEarlier
    \/ ConnectRejectsEarlier
    \/ RetryTimerFires
    \/ \E ev \in DriverEvents : DisconnectEarlier(ev)

SpecEarlier == InitEarlier /\ [][NextEarlier]_vars

(* ------------- either use: the manager, or retry() directly ------------ *)
\* retry() is running without createConnectionPromise having called it
DirectCall == seqStarted = 0 /\ rpc # "idle"

InitAll == Init \/ InitRetry
NextAll == (~DirectCall /\ Next) \/ (DirectCall /\ NextRetry)
SpecAll == InitAll /\ [][NextAll]_vars


(* ------------------------------- claims -------------------------------- *)
Outcome(i) == promises[callers[i].promise]
Last(s) == s[Len(s)]
ConnectPasses == {k \in 1..Len(passes) : passes[k].transition = "connect"}
Failing(cbs) == SelectSeq(cbs, Throws)
ThrownBy(cbs) == [i \in 1..Len(cbs) |-> Thrown(cbs[i])]

\* C1: a getClient call made while an attempt is in flight, or after it has
\* succeeded with no disconnect event since, starts no connect-and-retry
\* sequence: one sequence has been started in all, the call is handed the
\* promise of the first call, and all such callers observe the same outcome.
C1_SingleFlight ==
    \A i \in 1..Len(callers) :
        callers[i].phase \in {"inflight", "succeeded"} =>
            /\ ~callers[i].created
            /\ callers[i].seq = 1
            /\ callers[i].promise = callers[1].promise
            /\ Outcome(i) = Outcome(1)

C1_Witness ==
    /\ Len(callers) = 3
    /\ callers[2].phase = "inflight"
    /\ callers[3].phase = "succeeded"
    /\ Outcome(3).state = "fulfilled"
    /\ connectCalls > 1

\* C2: a getClient call made after the attempt failed with retries exhausted
\* starts a fresh connect-and-retry sequence (the cached promise was cleared).
C2_FreshAttemptAfterExhaustion ==
    \A i \in 1..Len(callers) : callers[i].phase = "exhausted" => callers[i].created

\* C3: a getClient call made after a driver disconnect event that followed a
\* successful connect starts a fresh connect-and-retry sequence; the stale
\* client and the cached promise were cleared.
C3_FreshCycleAfterDisconnect ==
    \A i \in 1..Len(callers) : callers[i].afterDisconnect => callers[i].created

\* C4: isConnnected() is true exactly when the last completed connect
\* succeeded and no disconnect event has been handled since.
C4_ConnectedIff == isConnnected <=> (lastAttempt = "ok" /\ ~discSince)

C4_Witness ==
    /\ ~isConnnected
    /\ lastAttempt = "ok"
    /\ discSince
    /\ connectCalls > 1
    /\ Len(callers) > 1

\* C5: constructed with retryAttempts = 0, a failed connect is the only one:
\* the driver's connect was invoked once, no backoff is armed, the promise is
\* rejected with that error, and isConnnected() is false.
C5_ZeroRetryAttempts ==
    (optAttempts = Given(0) /\ lastAttempt = "fail") =>
        /\ connectCalls = 1
        /\ rpc = "rejected"
        /\ promises[connectionPromise] = [state |-> "rejected", value |-> ConnectError(1)]
        /\ ~isConnnected

\* C6: retry(callback, N, delay) with a callback that fails every time rejects
\* only after N + 1 invocations, and never before the (N+1)-th has failed.
C6_ExhaustsAfterNPlusOne ==
    /\ rpc = "rejected" => (rcalls = rinit + 1 /\ rvalue = CallbackError(rinit + 1))
    /\ rcalls <= rinit + 1
    /\ (rpc = "waiting" => rcalls <= rinit)

C6_Witness == rpc = "rejected" /\ rinit = MaxRetries /\ rcalls = MaxRetries + 1

\* C7: every notification pass invokes each listener registered before the
\* transition exactly once, in registration order, whatever earlier ones threw.
C7_EveryListenerOnce ==
    \A k \in 1..Len(passes) : passes[k].invoked = passes[k].registered

C7_Witness ==
    /\ Len(passes) = 2
    /\ passes[1].transition = "connect"
    /\ passes[1].registered = <<"throwsErrorA">>
    /\ passes[2].transition = "disconnect"
    /\ passes[2].registered = <<"throwsErrorA", "quiet">>

\* C8: a pass with no failing listener raises nothing; a pass with failing
\* listeners raises one AggregateError with the fixed message whose errors are
\* the values thrown by the failing listeners, in listener order; on the
\* connect transition it is what getClient rejects with.
C8_AggregatesEveryFailure ==
    \A k \in 1..Len(passes) :
        LET failing == Failing(passes[k].registered)
        IN  /\ failing = <<>> => passes[k].raised = NoValue
            /\ failing # <<>> =>
                   passes[k].raised = AggregateError(ThrownBy(failing), AggregateMessage)
            /\ (failing # <<>> /\ passes[k].transition = "connect") =>
                   promises[connectionPromise] =
                       [state |-> "rejected", value |-> passes[k].raised]

\* C9: every listener runs with the flag already updated (true in a connect
\* pass, false in a disconnect pass), and after the pass the flag is the one
\* the transition set, whether or not listeners threw.
C9_FlagCommittedBeforeNotify ==
    /\ \A k \in 1..Len(passes) : \A j \in 1..Len(passes[k].seen) :
           passes[k].seen[j] = (passes[k].transition = "connect")
    /\ passes # <<>> => (isConnnected = (Last(passes).transition = "connect"))

C9_Witness ==
    /\ Len(passes) = 2
    /\ passes[1].transition = "connect" /\ passes[1].raised # NoValue
    /\ passes[2].transition = "disconnect" /\ passes[2].raised # NoValue
    /\ ~isConnnected

C9_WitnessConnect ==
    /\ Len(passes) = 1
    /\ passes[1].transition = "connect" /\ passes[1].raised # NoValue
    /\ isConnnected

\* C10 as stated: once the driver's connect has succeeded the client is
\* stored, the three handlers are subscribed, the listeners were notified and
\* the promise of getClient is fulfilled with the stored client, whatever the
\* listeners do.
C10_AlwaysResolves ==
    lastAttempt = "ok" =>
        /\ client = Client(connectCalls)
        /\ subscribed = DriverEvents
        /\ ConnectPasses # {}
        /\ promises[connectionPromise] = [state |-> "fulfilled", value |-> client]

\* C10 amended: once the driver's connect has succeeded the client is stored,
\* the three handlers are subscribed, the state is connected until a driver
\* event, every listener was notified, and the promise of getClient is
\* fulfilled with the stored client if no listener threw an Error, and
\* rejected with the AggregateError of the thrown Errors otherwise.
C10_ResolvesUnlessListenerError ==
    lastAttempt = "ok" =>
        /\ client = Client(connectCalls)
        /\ subscribed = DriverEvents
        /\ (~discSince => isConnnected)
        /\ Cardinality(ConnectPasses) = 1
        /\ \A k \in ConnectPasses :
              /\ passes[k].invoked = passes[k].registered
              /\ promises[connectionPromise] =
                    IF \E j \in 1..Len(passes[k].registered) :
                           IsError(Thrown(passes[k].registered[j])) /\ Throws(passes[k].registered[j])
                    THEN [state |-> "rejected",
                          value |-> AggregateError(
                              ThrownBy(SelectSeq(passes[k].registered,
                                  LAMBDA cb : Throws(cb) /\ IsError(Thrown(cb)))),
                              AggregateMessage)]
                    ELSE [state |-> "fulfilled", value |-> client]

C10_Witness ==
    /\ lastAttempt = "ok"
    /\ connectCalls = 2
    /\ promises[connectionPromise].state = "rejected"
    /\ passes[1].registered = <<"throwsString", "throwsErrorB">>

C10_WitnessFulfilled ==
    /\ lastAttempt = "ok"
    /\ promises[connectionPromise].state = "fulfilled"
    /\ passes[1].registered = <<"throwsString", "quiet">>


\* C11 as stated: when retry exhausts its attempts it rejects with the error of
\* the last callback invocation, unchanged, and getClient rejects with the
\* error of the driver's final connect.
C11_RejectsWithFinalError ==
    rpc = "rejected" =>
        IF DirectCall
        THEN rcalls = rinit + 1 /\ rvalue = CallbackError(rcalls)
        ELSE /\ finalFailure.value.n = connectCalls
             /\ promises[connectionPromise] =
                    [state |-> "rejected", value |-> finalFailure.value]

\* C11 amended: retry rejects with the error of the last callback invocation,
\* unchanged; getClient rejects with the error of the driver's final connect
\* when that connect rejected or threw an Error from outside the
\* ConnectionString constructor, with a new "Invalid connection string" Error
\* when it threw from that constructor, and with a new "Unexpected error"
\* Error when it threw a value that is no Error.
C11_RejectsWithFinalErrorOrItsReplacement ==
    rpc = "rejected" =>
        IF DirectCall
        THEN rcalls = rinit + 1 /\ rvalue = CallbackError(rcalls)
        ELSE /\ finalFailure.value.n = connectCalls
             /\ connectCalls = rinit + 1
             /\ promises[connectionPromise].state = "rejected"
             /\ promises[connectionPromise].value = rvalue
             /\ rvalue =
                  IF finalFailure.how = "rejects" THEN ConnectError(connectCalls)
                  ELSE IF finalFailure.value = ParseError(connectCalls)
                       THEN [type |-> "Error", message |-> "Invalid connection string"]
                  ELSE IF finalFailure.value = ThrownError(connectCalls)
                       THEN ThrownError(connectCalls)
                  ELSE [type |-> "Error", message |-> "Unexpected error"]

C11_Witness ==
    /\ rpc = "rejected"
    /\ ~DirectCall
    /\ connectCalls = 3
    /\ finalFailure.value = ParseError(3)
    /\ Len(callers) = 2

\* C12: when the k-th callback invocation succeeds after k - 1 failures
\* (1 <= k <= N + 1), retry resolves with that invocation's result, the
\* callback has been invoked k times, and no invocation is outstanding and no
\* timer armed after the success; through the manager, connect was invoked k
\* times and the state is connected (until a driver event).
C12_ResolvesOnKthInvocation ==
    (rpc = "resolved" /\ rinit >= 0) =>
        /\ rcalls >= 1 /\ rcalls <= rinit + 1
        /\ retries = rinit - (rcalls - 1)
        /\ inFlight = 0
        /\ timersPending = 0
        /\ IF DirectCall
           THEN rvalue = Result(rcalls)
           ELSE /\ connectCalls = rcalls
                /\ lastAttempt = "ok"
                /\ client = Client(rcalls)
                /\ (~discSince => isConnnected)

C12_Witness ==
    /\ rpc = "resolved"
    /\ DirectCall
    /\ rinit = 2
    /\ rcalls = 3
    /\ rvalue = Result(3)

C12_WitnessManager ==
    /\ rpc = "resolved"
    /\ ~DirectCall
    /\ connectCalls = 3
    /\ isConnnected

\* callback invocations of the running retry call that have failed
FailedInvocations == IF rpc = "resolved" THEN rcalls - 1 ELSE rcalls - inFlight
\* timers the running retry call has armed: one per later invocation, and the pending one
ArmedTimers == (rcalls - 1) + timersPending

\* C13: with a logger, one retry call has made one warn call per failed
\* callback invocation, one info call per timer it armed, and one error call
\* exactly if it has rejected; with a logger that returns, the info calls
\* number the failed invocations that had retries left.  Without a logger no
\* call is made.
C13_LoggerEvents ==
    /\ rlogger = "none" => rlog = NoLog
    /\ rlogger # "none" =>
          /\ rlog.warn = FailedInvocations
          /\ rlog.info = ArmedTimers
          /\ rlog.error = (IF rpc = "rejected" THEN 1 ELSE 0)
    /\ rlogger = "returns" =>
          rlog.info = FailedInvocations - (IF rpc = "rejected" THEN 1 ELSE 0)
    /\ (rpc = "resolved" /\ rcalls = 1) => (rlog.warn = 0 /\ rlog.error = 0)

C13_Witness ==
    /\ rlogger = "returns"
    /\ rpc = "rejected"
    /\ rinit = 2
    /\ rlog = [warn |-> 3, info |-> 2, error |-> 1]

\* C14: whatever the logger (none, one that returns, one that throws), once a
\* callback invocation has failed retry has either rejected with that error
\* (no retries left) or armed the timer of the next invocation.
C14_LoggerNeverAffectsControlFlow ==
    (inFlight = 0 /\ rpc # "resolved") =>
        IF retries = 0 THEN rpc = "rejected" /\ rvalue = CallbackError(rcalls)
                       ELSE rpc = "waiting" /\ timersPending = 1

\* the base of the delay before the k-th retry, k = rcalls
BaseOfRetry == dinit * 2 ^ (rcalls - 1)

C16_LazyConnect ==
    /\ callers = <<>> =>
          /\ connectCalls = 0
          /\ seqStarted = 0
          /\ inFlight = 0
          /\ rpc = "idle"
          /\ connectionPromise = 0
          /\ ~isConnnected
    /\ callers # <<>> => (callers[1].created /\ callers[1].seq = 1)
    /\ connectCalls > 0 => callers # <<>>

C16_Witness ==
    /\ Len(callbacks) = 2
    /\ Len(callers) = 1
    /\ connectCalls = 1
    /\ rpc = "calling"

\* C17: at most one invocation of the driver's connect is outstanding; a timer
\* is pending only while none is, so the next invocation starts after the
\* previous one failed and its timer fired; an outstanding invocation stays
\* outstanding until it settles; and one retry sequence at most has been started.
C17_OneConnectOutstanding ==
    /\ inFlight \in {0, 1}
    /\ timersPending \in {0, 1}
    /\ inFlight + timersPending <= 1
    /\ (rpc = "calling") <=> (inFlight = 1)
    /\ (rpc = "waiting") <=> (timersPending = 1)
    /\ seqStarted <= 1

C17_Witness ==
    /\ rpc = "calling"
    /\ inFlight = 1
    /\ connectCalls = 3
    /\ Len(callers) = 3

\* C18: the stored retryAttempts is non-negative, so while a connect-and-retry
\* sequence runs the retries left are non-negative and the driver's connect
\* has been invoked at most retryAttempts + 1 times.
C18_FinitelyManyConnects ==
    rpc \in {"calling", "waiting"} =>
        /\ retryAttempts >= 0
        /\ retries >= 0
        /\ connectCalls <= retryAttempts + 1

\* C19: every value a listener threw in a notification pass was logged or is
\* a cause inside the AggregateError the pass raised, with or without a logger
\* and whether or not the value is an Error.
C19_NoErrorDropped ==
    \A k \in 1..Len(passes) :
        LET reraised == IF passes[k].raised = NoValue THEN 0
                        ELSE Len(passes[k].raised.errors)
        IN  Len(Failing(passes[k].registered)) = reraised + passes[k].logged

\* C20: in the earlier variant, once a serverClosed, error or close event has
\* been handled after a successful connect, isConnnected() is false and every
\* registered listener was notified.
C20_EarlierVariantDisconnects ==
    (passes # <<>> /\ Last(passes).transition = "disconnect") =>
        /\ ~isConnnected
        /\ Last(passes).invoked = Last(passes).registered

\* A step that is a call of onConnectionChanged from outside a notification pass
DirectRegistration == registrations' # registrations /\ rpc' = rpc /\ nDisc' = nDisc

\* C21: a call of onConnectionChanged(listener) appends the listener at the end
\* of the listener sequence, whether or not the sequence already holds it, runs
\* no notification pass, and leaves the connected flag, the stored client and
\* the cached promise as they were; the listener sequence is always the
\* sequence of registered arguments in call order; a call of isConnnected()
\* changes no state of the manager.
C21_RegistrationAndReadChangeNothingElse ==
    [][ /\ callbacks' = registrations'
        /\ DirectRegistration =>
              /\ \E cb \in ListenerPool :
                    /\ registrations' = Append(registrations, cb)
                    /\ callbacks' = Append(callbacks, cb)
              /\ UNCHANGED <<connected, client, connectionPromise, promises, subscribed,
                             passes, retryVars>>
        /\ reads' # reads => UNCHANGED <<mgrVars, retryVars, obsVars, registrations>>
      ]_vars

\* the same callback was registered twice and a pass ran it twice, and
\* isConnnected() was called
C21_Witness ==
    /\ reads > 0
    /\ Len(registrations) = 2
    /\ registrations[1] = registrations[2]
    /\ callbacks = registrations
    /\ passes # <<>>
    /\ Last(passes).invoked = callbacks

\* C22: a listener registered from inside a listener during a notification pass
\* is not invoked in that pass, which runs exactly the listeners held when it
\* began, and it is invoked once, at its place in the sequence, in every later
\* pass.
C22_LateListenerWaitsForNextPass ==
    \A k \in 1..Len(passes) :
        /\ passes[k].invoked = passes[k].registered
        /\ Len(passes[k].array) >= Len(passes[k].registered)
        /\ \A j \in (k + 1)..Len(passes) :
              /\ Len(passes[j].invoked) >= Len(passes[k].array)
              /\ SubSeq(passes[j].invoked, 1, Len(passes[k].array)) = passes[k].array

\* a listener registered another during one pass, and a later pass ran it
C22_Witness ==
    \E k \in 1..Len(passes) :
        /\ RegisteredIn(passes[k]) # <<>>
        /\ k < Len(passes)
        /\ Len(passes[k + 1].invoked) > Len(passes[k].invoked)

=============================================================================
